---- MODULE Spec2Model ----
(***************************************************************************)
(* A model of the WebGL text renderer: the glyph atlas (shelf packing and  *)
(* the glyph cache), the shader program registry and the geometry builder. *)
(* Each subsystem is a state machine of its own over the variables it      *)
(* owns; the operations are written as operators over records so that the  *)
(* geometry builder can call the atlas exactly as the code does.           *)
(***************************************************************************)
EXTENDS Integers, Sequences, FiniteSets, TLC

(***************************************************************************)
(* Bounds of the model.  The atlas of the source is 4096 x 4096 texels     *)
(* (glyphAtlas.ts:13-14); the model packs into a small atlas so that       *)
(* wrapping, exact fits and the atlas-full error all happen.               *)
(***************************************************************************)
AtlasWidth == 7
AtlasHeight == 7
MaxCellW == 3
MaxCellH == 3
\* A failed allocation that wrapped keeps its wrap, so repeated failures move
\* the cursor down without limit; requests are modelled while y is at most:
MaxCursorY == 5

Max(a, b) == IF a >= b THEN a ELSE b

(***************************************************************************)
(* Glyph keys.  getGlyph joins the five font attributes of the style, the  *)
(* character and the pixel ratio with "|" (glyphAtlas.ts:103).  The        *)
(* character is one UTF-16 code unit and the ratio a number, so the joined *)
(* string determines the triple and the key is modelled as the triple.     *)
(* A style stands for its five font attributes and is named by the cell    *)
(* (ink extent plus padding) its glyphs measure to at pixel ratio 1.       *)
(***************************************************************************)
GlyphKey(style, ch, dpr) == <<style, ch, dpr>>

KeyCh(key) == key[2]

\* A whitespace test that knows the space only.
IsSpacerSpaceOnly(ch) == ch = " "

IsSpacer(ch) == ch \in {" ", "\t", "\n", "\r"}

Styles == [w : 1..MaxCellW, h : 1..MaxCellH]

Dprs == {1, 2}

\* The cell getGlyph computes for a character (glyphAtlas.ts:115-125): the
\* font is set to fontSize * dpr and the padding is ceil(dpr), so the cell at
\* an integer ratio is the ratio times the cell at ratio 1, and never below 1.
CellOf(style, ch, dpr) ==
  [w |-> Max(1, style.w * dpr), h |-> Max(1, style.h * dpr)]

AtlasKeys ==
  { GlyphKey(s, "A", d) : s \in Styles, d \in Dprs }
    \cup { GlyphKey([w |-> 1, h |-> 1], " ", 1) }

\* A rational number num/den, for UV coordinates (texel / atlas size).
Frac(n, d) == [num |-> n, den |-> d]

VARIABLES
  atlas,      \* GlyphAtlas: the cursor x, y, rowH, the cache map, whitePixel
  last,       \* the last atlas operation, its arguments and its outcome
  firstGlyph  \* the first result getGlyph returned per key in this generation

atlasVars == <<atlas, last, firstGlyph>>

VARIABLES
  shaderPrograms,     \* WebGLTextRenderer.shaderPrograms: key -> ProgramInfo
  postPassPrograms,   \* WebGLTextRenderer.postPassPrograms: key -> ProgramInfo
  activeShaderKey,
  activePostPassKey,
  gl,                 \* the GPU objects: program handles and shader objects
  call,               \* the registerRaw...FromFiles call in flight, if any
  regLast             \* the last registry operation and its outcome

regVars == <<shaderPrograms, postPassPrograms, activeShaderKey,
             activePostPassKey, gl, call, regLast>>

VARIABLES
  lkPrograms,   \* a registry map handed to a lookup
  lkOut         \* the lookup made and what it returned

lookupVars == <<lkPrograms, lkOut>>

VARIABLES
  vertices,       \* the vertex buffer contents, one record per 12 floats
  vertexCount,    \* this.vertexCount
  geometryDirty,  \* this.geometryDirty
  geomLast        \* the last geometry operation, its inputs and its outcome

geomVars == <<vertices, vertexCount, geometryDirty, geomLast>>

VARIABLES
  animOut   \* the last shouldAnimate call: its argument and what it returned

animVars == <<animOut>>

VARIABLES
  canvas,             \* canvas.width, canvas.height
  sceneTarget,        \* sceneTargetWidth, sceneTargetHeight
  sceneFramebuffer,   \* the framebuffer object: its completeness status
  overflow,           \* domLayer.style.overflowX, overflowY
  lastRenderOptions,  \* this.lastRenderOptions
  frameLast,          \* the last frame operation, its inputs and what it did
  builtBeforeReset    \* history: the atlas was reset after the last upload

frameVars ==
  <<canvas, sceneTarget, sceneFramebuffer, overflow, lastRenderOptions,
    frameLast, builtBeforeReset>>

VARIABLES
  textNode,   \* the data of a text node of the DOM layer, as UTF-16 code units
  domLast     \* the last DOM operation

domVars == <<textNode, domLast>>

VARIABLES
  clipOut   \* the last toClip call: its arguments and what it returned

clipVars == <<clipOut>>

VARIABLES
  scrollRafId,   \* this.scrollRafId
  rafPending,    \* the handles of the animation-frame callbacks not yet run
  rafNext,       \* the handle the next requestAnimationFrame returns
  scrollLast,    \* the last scroll event or animation-frame tick
  scrollOwed     \* history: a scroll event happened and no rebuild since

scrollVars == <<scrollRafId, rafPending, rafNext, scrollLast, scrollOwed>>

tailVars == <<clipVars, scrollVars>>

extVars == <<animVars, frameVars, domVars, tailVars>>

vars == <<atlasVars, regVars, lookupVars, geomVars, extVars>>

Empty == << >>

WhitePixel ==
  [u0 |-> Frac(1, 2 * AtlasWidth), v0 |-> Frac(1, 2 * AtlasHeight),
   u1 |-> Frac(1, 2 * AtlasWidth), v1 |-> Frac(1, 2 * AtlasHeight)]

\* A reset that forgets to clear the cache map.
AtlasResetKeepsMap(a) ==
  [x |-> 2, y |-> 2, rowH |-> 0, map |-> a.map, whitePixel |-> WhitePixel]

\* reset(): clear the map, put the cursor at (2, 2) with an empty shelf,
\* clear the texture and write the white pixel at texel (0, 0).
AtlasReset(a) ==
  [x |-> 2, y |-> 2, rowH |-> 0, map |-> Empty, whitePixel |-> WhitePixel]

\* The state the constructor leaves: it ends with this.reset().
AtlasNew == AtlasReset([x |-> 2, y |-> 2, rowH |-> 0, map |-> Empty,
                        whitePixel |-> [u0 |-> Frac(0, 1), v0 |-> Frac(0, 1),
                                        u1 |-> Frac(0, 1), v1 |-> Frac(0, 1)]])

\* A wrap test that lets a cell end exactly at the right edge.
MustWrapStrict(x, w) == x + w > AtlasWidth

\* The wrap test of allocGlyphSlot.
MustWrap(x, w) == x + w >= AtlasWidth

\* An atlas-full test that admits a cell ending exactly at the atlas height.
IsFullStrict(y, h) == y + h > AtlasHeight

\* The atlas-full test of allocGlyphSlot, on the (possibly wrapped) y.
IsFull(y, h) == y + h >= AtlasHeight

\* A wrap that moves down one texel instead of the shelf height plus one.
AllocGlyphSlotFlatWrap(a, w, h) ==
  LET wrapped == IF MustWrap(a.x, w)
                 THEN [a EXCEPT !.x = 2, !.y = a.y + 1, !.rowH = 0]
                 ELSE a
  IN IF IsFull(wrapped.y, h)
     THEN [ok |-> FALSE, atlas |-> wrapped, slot |-> [x |-> 0, y |-> 0]]
     ELSE [ok |-> TRUE,
           atlas |-> [wrapped EXCEPT !.x = wrapped.x + w + 1,
                                     !.rowH = Max(wrapped.rowH, h)],
           slot |-> [x |-> wrapped.x, y |-> wrapped.y]]

\* allocGlyphSlot(w, h): wraps first (mutating the cursor), then throws when
\* full, else returns the slot and advances the cursor.  A throw keeps the
\* wrap it made.
AllocGlyphSlot(a, w, h) ==
  LET wrapped == IF MustWrap(a.x, w)
                 THEN [a EXCEPT !.x = 2, !.y = a.y + a.rowH + 1, !.rowH = 0]
                 ELSE a
  IN IF IsFull(wrapped.y, h)
     THEN [ok |-> FALSE, atlas |-> wrapped, slot |-> [x |-> 0, y |-> 0]]
     ELSE [ok |-> TRUE,
           atlas |-> [wrapped EXCEPT !.x = wrapped.x + w + 1,
                                     !.rowH = Max(wrapped.rowH, h)],
           slot |-> [x |-> wrapped.x, y |-> wrapped.y]]

\* pad = max(1, ceil(dpr)), for the integer ratios of the model.
Pad(dpr) == Max(1, dpr)

\* The glyph record getGlyph builds from the slot and the cell.
MakeGlyph(slot, c, dpr) ==
  [empty |-> FALSE,
   u0 |-> Frac(slot.x, AtlasWidth), v0 |-> Frac(slot.y, AtlasHeight),
   u1 |-> Frac(slot.x + c.w, AtlasWidth), v1 |-> Frac(slot.y + c.h, AtlasHeight),
   w |-> c.w, h |-> c.h,
   baselineX |-> Pad(dpr), baselineY |-> c.h - Pad(dpr)]

Spacer == [empty |-> TRUE]

Put(m, k, v) == [q \in (DOMAIN m) \cup {k} |-> IF q = k THEN v ELSE m[q]]

\* A lookup that only ever finds the spacers.
CacheHitSpacerOnly(a, key) == key \in DOMAIN a.map /\ a.map[key].empty

\* The cache lookup at the head of getGlyph.
CacheHit(a, key) == key \in DOMAIN a.map

\* getGlyph(style, ch, dpr) on atlas a, when measuring the character gives
\* the cell c: a cache hit returns the stored entry; a spacer is cached
\* without packing; otherwise a slot is allocated, and the glyph is cached
\* only if the allocation did not throw.
GetGlyph(a, key, c) ==
  IF CacheHit(a, key)
  THEN [ok |-> TRUE, hit |-> TRUE, atlas |-> a, glyph |-> a.map[key]]
  ELSE IF IsSpacer(KeyCh(key))
  THEN [ok |-> TRUE, hit |-> FALSE,
        atlas |-> [a EXCEPT !.map = Put(a.map, key, Spacer)], glyph |-> Spacer]
  ELSE LET r == AllocGlyphSlot(a, c.w, c.h)
           g == MakeGlyph(r.slot, c, key[3])
       IN IF r.ok
          THEN [ok |-> TRUE, hit |-> FALSE,
                atlas |-> [r.atlas EXCEPT !.map = Put(r.atlas.map, key, g)],
                glyph |-> g]
          ELSE [ok |-> FALSE, hit |-> FALSE, atlas |-> r.atlas, glyph |-> Spacer]


(***************************************************************************)
(* The shader program registry (example.ts:246-269, 573-616, 865-997).     *)
(* A shader source is modelled by what the driver makes of it: whether its *)
(* vertex stage compiles, its fragment stage compiles, and the pair links. *)
(***************************************************************************)
MaxPrograms == 7
MaxShaders == 2

defaultShaderKey == "__default"

identityKey == "identity"

GoodSource == [vs |-> TRUE, fs |-> TRUE, link |-> TRUE]

RawSources ==
  { GoodSource,
    [vs |-> FALSE, fs |-> TRUE, link |-> TRUE],
    [vs |-> TRUE, fs |-> FALSE, link |-> TRUE],
    [vs |-> TRUE, fs |-> TRUE, link |-> FALSE] }

\* A ShaderEffect: its two snippets are valid GLSL or not.
Effects == [valid : BOOLEAN]

\* buildFragmentSource with the fixed vertexSrc: the template and the vertex
\* stage compile; the substituted snippets decide the fragment stage.
BuildFragmentSource(effect) == [vs |-> TRUE, fs |-> effect.valid, link |-> TRUE]

SceneKeys == {defaultShaderKey, "custom"}

PostKeys == {identityKey, "softBlur"}

\* gl.deleteProgram(p).
DeleteProgram(g, p) == [g EXCEPT !.programs[p] = @ + 1]

\* The program handles created and not deleted.
LivePrograms(g) == {p \in DOMAIN g.programs : g.programs[p] = 0}

\* createShader(type, source): a shader that does not compile is deleted
\* before the throw; one that compiles stays allocated for the caller.
CreateShader(g, compiles) ==
  IF compiles
  THEN [ok |-> TRUE, gl |-> [g EXCEPT !.shaders = @ + 1]]
  ELSE [ok |-> FALSE, gl |-> g]

\* createProgram(vsSource, fsSource): the vertex shader, then the fragment
\* shader (a throw here leaves the vertex shader allocated), then the program;
\* both shaders are deleted after linking, and a program that does not link
\* is deleted before the throw.
CreateProgram(g, src) ==
  LET vs == CreateShader(g, src.vs)
  IN IF ~vs.ok
     THEN [ok |-> FALSE, cause |-> "compile", gl |-> vs.gl, program |-> 0]
     ELSE LET fs == CreateShader(vs.gl, src.fs)
          IN IF ~fs.ok
             THEN [ok |-> FALSE, cause |-> "compile", gl |-> fs.gl, program |-> 0]
             ELSE LET p == fs.gl.nextProgram
                      made == [fs.gl EXCEPT !.nextProgram = p + 1,
                                            !.programs = Put(@, p, 0),
                                            !.shaders = @ - 2]
                  IN IF src.link
                     THEN [ok |-> TRUE, cause |-> "none", gl |-> made, program |-> p]
                     ELSE [ok |-> FALSE, cause |-> "link",
                           gl |-> DeleteProgram(made, p), program |-> 0]

\* createProgramInfoForProgram / createPostPassProgramInfoForProgram: the
\* program and its uniform locations, the sampler named u_tex or u_scene.
ProgramInfo(program, sampler) == [program |-> program, tex |-> sampler]

\* The registry side of the renderer as one record.
RegState ==
  [shaderPrograms |-> shaderPrograms, postPassPrograms |-> postPassPrograms,
   activeShaderKey |-> activeShaderKey, activePostPassKey |-> activePostPassKey,
   gl |-> gl]

\* A setProgramInfo that stores and forgets to delete what it replaced.
SetProgramInfoLeaks(r, key, info) == [r EXCEPT !.shaderPrograms = Put(@, key, info)]

\* setProgramInfo(key, info): store, then delete the program it replaced.
SetProgramInfo(r, key, info) ==
  LET stored == [r EXCEPT !.shaderPrograms = Put(@, key, info)]
  IN IF key \in DOMAIN r.shaderPrograms
     THEN [stored EXCEPT !.gl = DeleteProgram(@, r.shaderPrograms[key].program)]
     ELSE stored

\* setPostPassProgramInfo(key, info).
SetPostPassProgramInfo(r, key, info) ==
  LET stored == [r EXCEPT !.postPassPrograms = Put(@, key, info)]
  IN IF key \in DOMAIN r.postPassPrograms
     THEN [stored EXCEPT !.gl = DeleteProgram(@, r.postPassPrograms[key].program)]
     ELSE stored

Thrown(r, c) == [ok |-> FALSE, cause |-> c.cause, r |-> [r EXCEPT !.gl = c.gl]]

Returned(r) == [ok |-> TRUE, cause |-> "none", r |-> r]

\* registerShaderProgram(key, effect): the active key is not touched.
RegisterShaderProgram(r, key, effect) ==
  LET c == CreateProgram(r.gl, BuildFragmentSource(effect))
  IN IF ~c.ok THEN Thrown(r, c)
     ELSE Returned(SetProgramInfo([r EXCEPT !.gl = c.gl], key,
                                  ProgramInfo(c.program, "u_tex")))

\* compileCustomShader(shade, warp): registers "custom", then activates it.
CompileCustomShader(r, effect) ==
  LET reg == RegisterShaderProgram(r, "custom", effect)
  IN IF ~reg.ok THEN reg
     ELSE Returned([reg.r EXCEPT !.activeShaderKey = "custom"])

\* A registration that activates the key before it knows the program linked.
RegisterRawActivatesFirst(r, key, src) ==
  LET c == CreateProgram(r.gl, src)
      a == [r EXCEPT !.activeShaderKey = key, !.gl = c.gl]
  IN IF ~c.ok THEN [ok |-> FALSE, cause |-> c.cause, r |-> a]
     ELSE Returned(SetProgramInfo(a, key, ProgramInfo(c.program, "u_tex")))

\* registerRawShaderProgramFromSource(key, source).
RegisterRawShaderProgramFromSource(r, key, src) ==
  LET c == CreateProgram(r.gl, src)
  IN IF ~c.ok THEN Thrown(r, c)
     ELSE Returned([SetProgramInfo([r EXCEPT !.gl = c.gl], key,
                                   ProgramInfo(c.program, "u_tex"))
                      EXCEPT !.activeShaderKey = key])

\* registerRawPostPassProgramFromSource(key, source).
RegisterRawPostPassProgramFromSource(r, key, src) ==
  LET c == CreateProgram(r.gl, src)
  IN IF ~c.ok THEN Thrown(r, c)
     ELSE Returned([SetPostPassProgramInfo([r EXCEPT !.gl = c.gl], key,
                                           ProgramInfo(c.program, "u_scene"))
                      EXCEPT !.activePostPassKey = key])

\* A lookup that falls back to the key "default".
GetProgramInfoDefaultNamed(programs, key) ==
  IF key \in DOMAIN programs THEN [ok |-> TRUE, info |-> programs[key]]
  ELSE IF "default" \in DOMAIN programs
  THEN [ok |-> TRUE, info |-> programs["default"]]
  ELSE [ok |-> FALSE, info |-> ProgramInfo(0, "none")]

\* getProgramInfo(key) of the renderer with post passes (example.ts:865-876).
GetProgramInfo(programs, key) ==
  IF key \in DOMAIN programs THEN [ok |-> TRUE, info |-> programs[key]]
  ELSE IF defaultShaderKey \in DOMAIN programs
  THEN [ok |-> TRUE, info |-> programs[defaultShaderKey]]
  ELSE [ok |-> FALSE, info |-> ProgramInfo(0, "none")]

\* getPostPassProgramInfo(key).
GetPostPassProgramInfo(programs, key) ==
  IF key \in DOMAIN programs THEN [ok |-> TRUE, info |-> programs[key]]
  ELSE IF identityKey \in DOMAIN programs
  THEN [ok |-> TRUE, info |-> programs[identityKey]]
  ELSE [ok |-> FALSE, info |-> ProgramInfo(0, "none")]

\* getProgramInfo(key) of the renderer without post passes
\* (webglTextRenderer.ts:272-283): the fallback key is "plain".
GetProgramInfoPlain(programs, key) ==
  IF key \in DOMAIN programs THEN [ok |-> TRUE, info |-> programs[key]]
  ELSE IF "plain" \in DOMAIN programs
  THEN [ok |-> TRUE, info |-> programs["plain"]]
  ELSE [ok |-> FALSE, info |-> ProgramInfo(0, "none")]

\* The fields as declared (example.ts:266-269), before the constructor body.
RegFields ==
  [shaderPrograms |-> Empty, postPassPrograms |-> Empty,
   activeShaderKey |-> defaultShaderKey, activePostPassKey |-> identityKey,
   gl |-> [nextProgram |-> 1, programs |-> Empty, shaders |-> 0]]

\* The built-in post passes, in the order Object.keys gives them.
defaultPostPassKeys == <<identityKey, "ripple", "noise">>

RECURSIVE RegisterPostPasses(_, _)
RegisterPostPasses(r, keys) ==
  IF keys = << >> THEN r
  ELSE RegisterPostPasses(
         RegisterRawPostPassProgramFromSource(r, Head(keys), GoodSource).r,
         Tail(keys))

\* The constructor (example.ts:379-386): the default scene program, then
\* every built-in post pass through registerRawPostPassProgramFromSource.
RegNew ==
  RegisterPostPasses(
    RegisterShaderProgram(RegFields, defaultShaderKey, [valid |-> TRUE]).r,
    defaultPostPassKeys)

NoCall == [state |-> "none"]

RegInit ==
  /\ shaderPrograms = RegNew.shaderPrograms
  /\ postPassPrograms = RegNew.postPassPrograms
  /\ activeShaderKey = RegNew.activeShaderKey
  /\ activePostPassKey = RegNew.activePostPassKey
  /\ gl = RegNew.gl
  /\ call = NoCall
  /\ regLast = [op |-> "new"]

\* The model stops creating GPU objects at its bounds.
CanCreate == gl.nextProgram <= MaxPrograms /\ gl.shaders < MaxShaders

Commit(res) ==
  /\ shaderPrograms' = res.r.shaderPrograms
  /\ postPassPrograms' = res.r.postPassPrograms
  /\ activeShaderKey' = res.r.activeShaderKey
  /\ activePostPassKey' = res.r.activePostPassKey
  /\ gl' = res.r.gl

Outcome(op, ns, key, res) ==
  [op |-> op, ns |-> ns, key |-> key, ok |-> res.ok, cause |-> res.cause]

DoRegisterShaderProgram ==
  /\ CanCreate
  /\ \E key \in SceneKeys, effect \in Effects :
       LET res == RegisterShaderProgram(RegState, key, effect)
       IN Commit(res) /\ regLast' = Outcome("registerShaderProgram", "scene", key, res)
  /\ UNCHANGED call

DoCompileCustomShader ==
  /\ CanCreate
  /\ \E effect \in Effects :
       LET res == CompileCustomShader(RegState, effect)
       IN Commit(res) /\ regLast' = Outcome("compileCustomShader", "scene", "custom", res)
  /\ UNCHANGED call

DoRegisterRawShaderProgramFromSource ==
  /\ CanCreate
  /\ \E key \in SceneKeys, src \in RawSources :
       LET res == RegisterRawShaderProgramFromSource(RegState, key, src)
       IN Commit(res)
          /\ regLast' = Outcome("registerRawShaderProgramFromSource", "scene", key, res)
  /\ UNCHANGED call

DoRegisterRawPostPassProgramFromSource ==
  /\ CanCreate
  /\ \E key \in PostKeys, src \in RawSources :
       LET res == RegisterRawPostPassProgramFromSource(RegState, key, src)
       IN Commit(res)
          /\ regLast' = Outcome("registerRawPostPassProgramFromSource", "post", key, res)
  /\ UNCHANGED call

\* A Promise.any in place of Promise.all: one text is enough to go on.
AnyFetched(c) == c.vertex = "ok" \/ c.fragment = "ok"

\* Promise.all over the two fetches resolves when both have succeeded.
AllFetched(c) == c.vertex = "ok" /\ c.fragment = "ok"

\* registerRawShaderProgramFromFiles / registerRawPostPassProgramFromFiles:
\* the call starts both fetches and suspends.  One call is in flight at a
\* time in the model.
DoRegisterRawFromFiles ==
  /\ call.state /= "pending"
  /\ \E ns \in {"scene", "post"} :
       \E key \in (IF ns = "scene" THEN SceneKeys ELSE PostKeys) :
         call' = [state |-> "pending", ns |-> ns, key |-> key,
                  vertex |-> "pending", fragment |-> "pending",
                  compiled |-> FALSE]
  /\ regLast' = [op |-> "registerRawFromFiles", ok |-> TRUE, cause |-> "none"]
  /\ UNCHANGED <<shaderPrograms, postPassPrograms, activeShaderKey,
                 activePostPassKey, gl>>

\* The code after the await (example.ts:600, 615), run when Promise.all
\* resolves: the raw registration of the namespace, with the fetched texts.
ResumeFromFiles(r, c, src) ==
  IF c.ns = "scene"
  THEN RegisterRawShaderProgramFromSource(r, c.key, src)
  ELSE RegisterRawPostPassProgramFromSource(r, c.key, src)

\* One fetchShaderText settles (example.ts:991-997): with a success status
\* and the text, or with a throw.  The first throw rejects the call; when
\* both texts are there the call resumes and registers.  A fetch that
\* settles after the call was rejected changes nothing.
DoFetchSettles ==
  /\ call.state \in {"pending", "rejected"}
  /\ \E which \in {"vertex", "fragment"}, ok \in BOOLEAN :
       /\ call[which] = "pending"
       /\ LET c == [call EXCEPT ![which] = IF ok THEN "ok" ELSE "failed"]
          IN IF call.state = "pending" /\ AllFetched(c)
             THEN /\ CanCreate
                  /\ \E src \in RawSources :
                     LET res == ResumeFromFiles(RegState, c, src)
                     IN /\ Commit(res)
                        /\ call' = [c EXCEPT !.compiled = TRUE,
                                             !.state = IF res.ok THEN "fulfilled"
                                                       ELSE "rejected"]
                        /\ regLast' = Outcome("resumeFromFiles", c.ns, c.key, res)
             ELSE /\ call' = [c EXCEPT !.state = IF ok THEN call.state
                                                 ELSE "rejected"]
                  /\ regLast' = [op |-> "fetchSettles", ok |-> ok, cause |-> "fetch"]
                  /\ UNCHANGED <<shaderPrograms, postPassPrograms, activeShaderKey,
                                 activePostPassKey, gl>>

(***************************************************************************)
(* Program lookup as a function of the registry map and the key.           *)
(***************************************************************************)
LookupKeys == <<defaultShaderKey, "default", "plain", identityKey, "custom">>

LookupKeySet == {LookupKeys[i] : i \in DOMAIN LookupKeys}

\* A registry map over a set of keys, each key with a program of its own.
ProgramsOver(keys) ==
  [k \in keys |-> ProgramInfo(CHOOSE i \in DOMAIN LookupKeys : LookupKeys[i] = k,
                              "u_tex")]

LookupInit ==
  /\ lkPrograms \in {ProgramsOver(keys) : keys \in SUBSET LookupKeySet}
  /\ lkOut = [fn |-> "none"]

LookupIdle ==
  /\ lkPrograms = Empty
  /\ lkOut = [fn |-> "none"]

DoGetProgramInfo ==
  /\ \E key \in LookupKeySet :
       lkOut' = [fn |-> "getProgramInfo", key |-> key,
                 out |-> GetProgramInfo(lkPrograms, key)]
  /\ UNCHANGED lkPrograms

DoGetPostPassProgramInfo ==
  /\ \E key \in LookupKeySet :
       lkOut' = [fn |-> "getPostPassProgramInfo", key |-> key,
                 out |-> GetPostPassProgramInfo(lkPrograms, key)]
  /\ UNCHANGED lkPrograms

DoGetProgramInfoPlain ==
  /\ \E key \in LookupKeySet :
       lkOut' = [fn |-> "getProgramInfoPlain", key |-> key,
                 out |-> GetProgramInfoPlain(lkPrograms, key)]
  /\ UNCHANGED lkPrograms

AtlasInit ==
  /\ atlas = AtlasNew
  /\ last = [op |-> "new"]
  /\ firstGlyph = Empty

\* getGlyph for the key.
DoGetGlyphOf(key) ==
  LET c == CellOf(key[1], key[2], key[3])
      r == GetGlyph(atlas, key, c)
  IN /\ atlas' = r.atlas
     /\ last' = [op |-> "getGlyph", key |-> key, ok |-> r.ok, hit |-> r.hit,
                 glyph |-> r.glyph, w |-> c.w, h |-> c.h,
                 repeated |-> key \in DOMAIN firstGlyph,
                 recached |-> last.op = "reset" /\ key \in last.cached]
     /\ firstGlyph' = IF r.ok /\ key \notin DOMAIN firstGlyph
                      THEN Put(firstGlyph, key, r.glyph)
                      ELSE firstGlyph

\* A caller asks for a glyph.
DoGetGlyph ==
  /\ atlas.y <= MaxCursorY
  /\ \E key \in AtlasKeys : DoGetGlyphOf(key)

\* The cells allocGlyphSlot is asked for: getGlyph passes the measured ink
\* extent plus padding, which no test bounds by the atlas size.
MaxSlotW == 8
MaxSlotH == 3

\* allocGlyphSlot(w, h), the step of getGlyph that moves the cursor.
DoAllocGlyphSlot ==
  /\ atlas.y <= MaxCursorY
  /\ \E w \in 1..MaxSlotW, h \in 1..MaxSlotH :
       \E r \in {AllocGlyphSlot(atlas, w, h)} :
          /\ atlas' = r.atlas
          /\ last' = [op |-> "allocGlyphSlot", w |-> w, h |-> h, ok |-> r.ok,
                      slot |-> r.slot, from |-> atlas]
  /\ UNCHANGED firstGlyph

\* The four characters getGlyph does not rasterize, in one style.
WhitespaceKeys ==
  { GlyphKey([w |-> 1, h |-> 1], ch, 1) : ch \in {" ", "\t", "\n", "\r"} }

\* Glyphs that fill the atlas in two requests: a 3x3 cell at ratio 1 and 2.
InkKeys == { GlyphKey([w |-> 3, h |-> 3], "A", d) : d \in Dprs }

\* A caller asks for a whitespace character, whatever the cursor.
DoGetWhitespace == \E key \in WhitespaceKeys : DoGetGlyphOf(key)

\* A caller asks for one of the glyphs that fill the atlas.
DoGetInk ==
  /\ atlas.y <= MaxCursorY
  /\ \E key \in InkKeys : DoGetGlyphOf(key)

DoReset ==
  /\ atlas' = AtlasReset(atlas)
  /\ last' = [op |-> "reset",
               cached |-> {k \in DOMAIN atlas.map : ~atlas.map[k].empty}]
  /\ firstGlyph' = Empty

(***************************************************************************)
(* Geometry: buildVertices and rebuildGeometry.  Lengths are rationals so  *)
(* that the wireframe threshold 0.35 is a length like any other.           *)
(***************************************************************************)
CanvasWidth == 100
CanvasHeight == 100
MaxPlacements == 2

FracGT(a, b) == a.num * b.den > b.num * a.den

FracPlus(a, b) == Frac(a.num * b.den + b.num * a.den, a.den * b.den)

FracMinus(a, b) == Frac(a.num * b.den - b.num * a.den, a.den * b.den)

FracTimes(a, n) == Frac(a.num * n, a.den)

\* A toClip whose y grows downwards like the pixel rows.
ToClipYDown(x, y, width, height) ==
  [x |-> Frac(2 * x.num - x.den * width, x.den * width),
   y |-> Frac(2 * y.num - y.den * height, y.den * height)]

\* toClip(x, y, width, height) = [(x / width) * 2 - 1, 1 - (y / height) * 2].
ToClip(x, y, width, height) ==
  [x |-> Frac(2 * x.num - x.den * width, x.den * width),
   y |-> Frac(y.den * height - 2 * y.num, y.den * height)]

\* The literal 0.35 the wireframe test compares the box width with.
WireMinBoxW == Frac(35, 100)

\* A wireframe test that draws the border of a box exactly 0.35 wide.
WireVisibleFromThreshold(showWire, boxW) == showWire /\ ~FracGT(WireMinBoxW, boxW)

\* showWire && p.boxW > 0.35
WireVisible(showWire, boxW) == showWire /\ FracGT(boxW, WireMinBoxW)

WireColor == "wire"

\* The placements the layout provider hands over; a placement holds one
\* character (part_002:226-281).
Placement(ch, style, boxW) ==
  [ch |-> ch, style |-> style, x |-> 10, y |-> 20,
   boxX |-> Frac(0, 1), boxY |-> Frac(0, 1), boxW |-> boxW,
   boxH |-> Frac(20, 1), color |-> "ink"]

\* Two glyphs of different styles (cells 2x1 and 2x2, which take a shelf
\* each), a box exactly 0.35 wide, and a space.
Placements ==
  {Placement("A", [w |-> 2, h |-> 1], Frac(10, 1)),
   Placement("A", [w |-> 2, h |-> 1], Frac(35, 100)),
   Placement("A", [w |-> 2, h |-> 2], Frac(10, 1)),
   Placement(" ", [w |-> 2, h |-> 1], Frac(10, 1))}

\* window.devicePixelRatio at the builds of this model.
GeomDprs == {1}

PlacementLists == UNION {[1..n -> Placements] : n \in 0..MaxPlacements}

\* pushQuad: two triangles, six vertices of 12 floats each.
PushQuad(out, x, y, w, h, u0, v0, u1, v1, color, uvBounds, width, height) ==
  LET p0 == ToClip(x, y, width, height)
      p1 == ToClip(FracPlus(x, w), FracPlus(y, h), width, height)
      V(px, py, u, v) == [x |-> px, y |-> py, u |-> u, v |-> v,
                          color |-> color, bounds |-> uvBounds]
  IN out \o << V(p0.x, p1.y, u0, v1), V(p1.x, p1.y, u1, v1), V(p1.x, p0.y, u1, v0),
               V(p0.x, p1.y, u0, v1), V(p1.x, p0.y, u1, v0), V(p0.x, p0.y, u0, v0) >>

\* The four border quads of a placement's box.
PushWire(out, a, p, dpr, width, height) ==
  LET wx == FracTimes(p.boxX, dpr)
      wy == FracTimes(p.boxY, dpr)
      ww == FracTimes(p.boxW, dpr)
      wh == FracTimes(p.boxH, dpr)
      t == Frac(Max(1, dpr), 1)
      wp == a.whitePixel
      b == <<wp.u0, wp.v0, wp.u1, wp.v1>>
      Q(o, x, y, w, h) ==
        PushQuad(o, x, y, w, h, wp.u0, wp.v0, wp.u1, wp.v1, WireColor, b, width, height)
  IN Q(Q(Q(Q(out, wx, wy, ww, t),
             wx, FracMinus(FracPlus(wy, wh), t), ww, t),
           wx, wy, t, wh),
         FracMinus(FracPlus(wx, ww), t), wy, t, wh)

\* The body of the loop of buildVertices for one placement p, on the atlas a
\* and the output so far.
BuildOne(a, out, p, dpr, showWire, width, height) ==
  LET r == GetGlyph(a, GlyphKey(p.style, p.ch, dpr), CellOf(p.style, p.ch, dpr))
      g == r.glyph
      withGlyph ==
        IF g.empty THEN out
        ELSE PushQuad(out, Frac(p.x * dpr - g.baselineX, 1),
                      Frac(p.y * dpr - g.baselineY, 1),
                      Frac(g.w, 1), Frac(g.h, 1), g.u0, g.v0, g.u1, g.v1,
                      p.color, <<g.u0, g.v0, g.u1, g.v1>>, width, height)
  IN IF ~r.ok
     THEN [ok |-> FALSE, atlas |-> r.atlas, out |-> out]
     ELSE [ok |-> TRUE, atlas |-> r.atlas,
           out |-> IF WireVisible(showWire, p.boxW)
                   THEN PushWire(withGlyph, r.atlas, p, dpr, width, height)
                   ELSE withGlyph]

RECURSIVE BuildFrom(_, _, _, _, _, _, _, _)
BuildFrom(a, out, placements, i, dpr, showWire, width, height) ==
  IF i > Len(placements)
  THEN [ok |-> TRUE, atlas |-> a, out |-> out]
  ELSE LET r == BuildOne(a, out, placements[i], dpr, showWire, width, height)
       IN IF r.ok
          THEN BuildFrom(r.atlas, r.out, placements, i + 1, dpr, showWire, width, height)
          ELSE r

\* buildVertices(placements, width, height, dpr, showWire) on atlas a; a
\* getGlyph that throws ends the build with the atlas as the throw left it.
BuildVertices(a, placements, width, height, dpr, showWire) ==
  BuildFrom(a, << >>, placements, 1, dpr, showWire, width, height)

GeomInit ==
  /\ vertices = << >>
  /\ vertexCount = 0
  /\ geometryDirty = TRUE
  /\ geomLast = [op |-> "new"]

\* rebuildGeometry(showWire): collect the placements, build, upload, count.
\* When buildVertices throws, the buffer, the count and the flag stay; the
\* glyphs of this section all fit the atlas, so that branch is taken only
\* where the placements are larger.
DoRebuildGeometry ==
  /\ atlas.y <= MaxCursorY
  /\ \E placements \in PlacementLists, dpr \in GeomDprs, showWire \in BOOLEAN :
       \E r \in {BuildVertices(atlas, placements, CanvasWidth, CanvasHeight,
                                dpr, showWire)} :
          /\ atlas' = r.atlas
          /\ geomLast' = [op |-> "rebuildGeometry", placements |-> placements,
                          dpr |-> dpr, showWire |-> showWire, ok |-> r.ok]
          /\ IF r.ok
             THEN /\ vertices' = r.out
                  /\ vertexCount' = Len(r.out)
                  /\ geometryDirty' = FALSE
             ELSE UNCHANGED <<vertices, vertexCount, geometryDirty>>
  /\ UNCHANGED <<last, firstGlyph>>

\* clearCaches(): reset the atlas and mark the geometry dirty.
DoClearCaches ==
  /\ atlas' = AtlasReset(atlas)
  /\ geometryDirty' = TRUE
  /\ geomLast' = [op |-> "clearCaches"]
  /\ UNCHANGED <<vertices, vertexCount, last, firstGlyph>>

(***************************************************************************)
(* shouldAnimate.                                                          *)
(***************************************************************************)
\* A shouldAnimate that also looks at the active post pass.
ShouldAnimateEitherKey(r, animateEnabled) ==
  animateEnabled /\ (r.activeShaderKey /= defaultShaderKey
                       \/ r.activePostPassKey /= identityKey)

\* shouldAnimate(animateEnabled) = animateEnabled && activeShaderKey !== defaultShaderKey
ShouldAnimate(r, animateEnabled) ==
  animateEnabled /\ r.activeShaderKey /= defaultShaderKey

AnimInit == animOut = [op |-> "none"]

DoShouldAnimate ==
  \E animateEnabled \in BOOLEAN :
    animOut' = [op |-> "shouldAnimate", enabled |-> animateEnabled,
                out |-> ShouldAnimate(RegState, animateEnabled)]

(***************************************************************************)
(* sanitizeDomLayer.  A text node is its data, a sequence of UTF-16 code   *)
(* units, and whether the selection rule of the layout takes it.           *)
(***************************************************************************)
MaxTextLen == 3

\* Code units on both sides of every edge of the repertoire, "?" (63), and
\* the two halves of a surrogate pair.
CodeUnits == {8, 9, 10, 11, 13, 31, 32, 63, 126, 127, 159, 160, 255, 256,
              55357, 56832}

\* The character class [\u0009\u000A\u000D -~ -ÿ].
InRepertoire(c) ==
  \/ c \in {9, 10, 13}
  \/ c >= 32 /\ c <= 126
  \/ c >= 160 /\ c <= 255

QuestionMark == 63

\* LATIN_TEXT.test(data)
LatinText(data) == \A i \in 1..Len(data) : InRepertoire(data[i])

\* A replace that removes the code units it does not know.
ReplaceDrops(data) == SelectSeq(data, InRepertoire)

\* data.replace(/[^...]/g, "?"): the regular expression has no u flag, so it
\* works code unit by code unit.
Replace(data) ==
  [i \in 1..Len(data) |-> IF InRepertoire(data[i]) THEN data[i] ELSE QuestionMark]

\* The body of the loop of sanitizeLatinTree for one text node.
SanitizeNode(node) ==
  IF ~node.selected THEN node
  ELSE IF LatinText(node.data) THEN node
  ELSE [node EXCEPT !.data = Replace(node.data)]

TextNodes ==
  [data : UNION {[1..n -> CodeUnits] : n \in 0..MaxTextLen}, selected : BOOLEAN]

DomIdle ==
  /\ textNode = [data |-> << >>, selected |-> TRUE]
  /\ domLast = [op |-> "none"]

DomInit ==
  /\ textNode \in TextNodes
  /\ domLast = [op |-> "none"]

DoSanitizeDomLayer ==
  /\ textNode' = SanitizeNode(textNode)
  /\ domLast' = [op |-> "sanitizeDomLayer", before |-> textNode.data,
                 changed |-> SanitizeNode(textNode) /= textNode]

(***************************************************************************)
(* The frame: render and what it calls.  A frame operation works on the    *)
(* renderer fields f and returns the fields it leaves, the GPU and layout  *)
(* calls it made, in order, and whether it returned or threw.  The colour  *)
(* of the DOM text and the shader uniforms are outside the model.          *)
(***************************************************************************)
FrameState ==
  [atlas |-> atlas, vertices |-> vertices, vertexCount |-> vertexCount,
   geometryDirty |-> geometryDirty, canvas |-> canvas,
   sceneTarget |-> sceneTarget, sceneFramebuffer |-> sceneFramebuffer,
   overflow |-> overflow,
   lastRenderOptions |-> lastRenderOptions,
   shaderPrograms |-> shaderPrograms, postPassPrograms |-> postPassPrograms,
   activeShaderKey |-> activeShaderKey, activePostPassKey |-> activePostPassKey]

Went(f, log) == [ok |-> TRUE, f |-> f, log |-> log]

Threw(f, log) == [ok |-> FALSE, f |-> f, log |-> log]

\* syncDomLayerOverflowState(): needs.x and needs.y are what the scroll
\* extents of the DOM layer call for; the style follows them.
OverflowFor(needs) ==
  [x |-> IF needs.x THEN "auto" ELSE "hidden",
   y |-> IF needs.y THEN "auto" ELSE "hidden"]

SyncDomLayerOverflowState(f, needs) ==
  [changed |-> f.overflow /= OverflowFor(needs),
   f |-> [f EXCEPT !.overflow = OverflowFor(needs)]]

\* The canvas size resizeCanvas aims at: max(1, round(rect * dpr)) per side.
TargetSize(rect, dpr) ==
  [width |-> Max(1, rect.width * dpr), height |-> Max(1, rect.height * dpr)]

\* resizeCanvas()
ResizeCanvas(f, rect, dpr) ==
  [resized |-> f.canvas /= TargetSize(rect, dpr),
   f |-> [f EXCEPT !.canvas = TargetSize(rect, dpr)]]

\* The end of a rebuild that leaves the dirty flag set.
UploadStaysDirty(f, r) ==
  IF ~r.ok
  THEN Threw([f EXCEPT !.atlas = r.atlas], <<[e |-> "layout"]>>)
  ELSE Went([f EXCEPT !.atlas = r.atlas, !.vertices = r.out,
                      !.vertexCount = Len(r.out)],
            <<[e |-> "layout"], [e |-> "upload"]>>)

\* The end of rebuildGeometry, r being what buildVertices gave: a throw
\* leaves the buffer, the count and the flag; else the buffer is uploaded,
\* counted, and the flag cleared.
Upload(f, r) ==
  IF ~r.ok
  THEN Threw([f EXCEPT !.atlas = r.atlas], <<[e |-> "layout"]>>)
  ELSE Went([f EXCEPT !.atlas = r.atlas, !.vertices = r.out,
                      !.vertexCount = Len(r.out), !.geometryDirty = FALSE],
            <<[e |-> "layout"], [e |-> "upload"]>>)

\* rebuildGeometry(showWire): the layout gives the placements, buildVertices
\* works on the atlas for the size of the canvas, then the upload.
RebuildGeometry(f, showWire, placements, dpr) ==
  Upload(f, BuildVertices(f.atlas, placements, f.canvas.width, f.canvas.height,
                          dpr, showWire))

\* An ensureSceneTargetSize that never finds the size changed.
EnsureSceneTargetSizeOnce(f, complete) == Went(f, << >>)

\* ensureSceneTargetSize(): nothing when the recorded size is the canvas
\* size; else record the size, allocate the storage, attach it, and throw if
\* the framebuffer is not complete.  The status the driver reports is the
\* status the framebuffer keeps until its storage is allocated again.
EnsureSceneTargetSize(f, complete) ==
  IF f.sceneTarget = f.canvas
  THEN Went(f, << >>)
  ELSE LET g == [f EXCEPT !.sceneTarget = f.canvas,
                          !.sceneFramebuffer = [complete |-> complete]]
           log == <<[e |-> "allocTarget", size |-> f.canvas]>>
       IN IF complete THEN Went(g, log) ELSE Threw(g, log)

\* drawTextScene(options, elapsed, target)
DrawTextScene(f, target) ==
  LET info == GetProgramInfo(f.shaderPrograms, f.activeShaderKey)
  IN IF ~info.ok
     THEN Threw(f, << >>)
     ELSE Went(f, <<[e |-> "drawScene", target |-> target,
                     program |-> info.info.program, count |-> f.vertexCount,
                     canvas |-> f.canvas, sceneTarget |-> f.sceneTarget]>>)

\* drawPostPass(elapsed, intensity, speed)
DrawPostPass(f) ==
  LET info == GetPostPassProgramInfo(f.postPassPrograms, f.activePostPassKey)
  IN IF ~info.ok
     THEN Threw(f, << >>)
     ELSE Went(f, <<[e |-> "drawPost", target |-> "screen",
                     texture |-> "sceneTexture", program |-> info.info.program]>>)

\* b after a, unless a threw; b is what the next call does on a.f.
Then(a, b) ==
  IF ~a.ok THEN a ELSE [ok |-> b.ok, f |-> b.f, log |-> a.log \o b.log]

\* A render that draws the post pass before the scene.
RenderPassesPostFirst(f, opt, env) ==
  LET ensured == EnsureSceneTargetSize(f, env.complete)
      post == Then(ensured, DrawPostPass(ensured.f))
  IN IF opt.postPass
     THEN Then(post, DrawTextScene(post.f, "offscreen"))
     ELSE DrawTextScene(f, "screen")

\* The tail of render: the passes.
RenderPasses(f, opt, env) ==
  LET ensured == EnsureSceneTargetSize(f, env.complete)
      scene == Then(ensured, DrawTextScene(ensured.f, "offscreen"))
  IN IF opt.postPass
     THEN Then(scene, DrawPostPass(scene.f))
     ELSE DrawTextScene(f, "screen")

\* The passes after the geometry step built, unless that step threw.
RenderFrom(built, opt, env) == Then(built, RenderPasses(built.f, opt, env))

\* render(options).  env is what the call reads from the page: the scroll
\* needs of the DOM layer, the stage rectangle, the pixel ratio, the
\* placements the layout would give, and whether a framebuffer allocated
\* now would be complete.
Render(f, opt, env) ==
  LET f1 == [f EXCEPT !.lastRenderOptions = opt]
      s == SyncDomLayerOverflowState(f1, env.needs)
      f2 == IF s.changed THEN [s.f EXCEPT !.geometryDirty = TRUE] ELSE s.f
      z == ResizeCanvas(f2, env.rect, env.dpr)
      f3 == IF z.resized THEN [z.f EXCEPT !.geometryDirty = TRUE] ELSE z.f
  IN RenderFrom(IF opt.forceGeometry \/ f3.geometryDirty
                THEN RebuildGeometry(f3, opt.showWire, env.placements, env.dpr)
                ELSE Went(f3, << >>),
                opt, env)

\* A clearCaches that leaves the dirty flag alone.
ClearCachesKeepsFlag(f) == [f EXCEPT !.atlas = AtlasReset(f.atlas)]

\* clearCaches()
ClearCaches(f) ==
  [f EXCEPT !.atlas = AtlasReset(f.atlas), !.geometryDirty = TRUE]

\* markGeometryDirty()
MarkGeometryDirty(f) == [f EXCEPT !.geometryDirty = TRUE]

\* The specifications with frames stop registering programs once this many
\* program handles have been created.
FrameMaxPrograms == 5

\* The glyphs of the frames: cells 2x2 and 3x3, which the atlas of this model
\* cannot hold together, so a build of both throws part-way.
FramePlacementLists ==
  {<<Placement("A", [w |-> 2, h |-> 2], Frac(10, 1))>>,
   <<Placement("A", [w |-> 2, h |-> 2], Frac(10, 1)),
     Placement("A", [w |-> 3, h |-> 3], Frac(10, 1))>>}

FrameRects == {[width |-> 100, height |-> 100], [width |-> 200, height |-> 100]}

FrameDprs == {1}

FrameOptions == [forceGeometry : BOOLEAN, showWire : {FALSE}, postPass : BOOLEAN]

\* What a render reads from the page.  A framebuffer that comes out
\* incomplete is tried at both stage sizes, for one text and one overflow.
FrameEnvs ==
  [needs : {[x |-> FALSE, y |-> FALSE], [x |-> FALSE, y |-> TRUE]},
   rect : FrameRects, dpr : FrameDprs, placements : FramePlacementLists,
   complete : {TRUE}]
  \cup
  [needs : {[x |-> FALSE, y |-> TRUE]},
   rect : FrameRects, dpr : FrameDprs,
   placements : {<<Placement("A", [w |-> 2, h |-> 2], Frac(10, 1))>>},
   complete : {FALSE}]

\* The fields after the constructor: a canvas element starts 300 x 150, the
\* DOM layer is created with overflow-y auto and overflow-x hidden, and the
\* scene texture is attached before it has any storage.
FrameInit ==
  /\ canvas = [width |-> 300, height |-> 150]
  /\ sceneTarget = [width |-> 0, height |-> 0]
  /\ sceneFramebuffer = [complete |-> FALSE]
  /\ overflow = [x |-> "hidden", y |-> "auto"]
  /\ lastRenderOptions = [set |-> FALSE]
  /\ frameLast = [op |-> "new"]
  /\ builtBeforeReset = FALSE

\* toClip has not been called.
ClipInit == clipOut = [op |-> "none"]

\* The constructor leaves scrollRafId 0; no callback has been requested.
ScrollInit ==
  /\ scrollRafId = 0
  /\ rafPending = {}
  /\ rafNext = 1
  /\ scrollLast = [op |-> "none"]
  /\ scrollOwed = FALSE

ExtIdle == AnimInit /\ FrameInit /\ DomIdle /\ ClipInit /\ ScrollInit

\* The fields a frame operation leaves become the state.
FrameCommit(f) ==
  /\ atlas' = f.atlas
  /\ vertices' = f.vertices
  /\ vertexCount' = f.vertexCount
  /\ geometryDirty' = f.geometryDirty
  /\ canvas' = f.canvas
  /\ sceneTarget' = f.sceneTarget
  /\ sceneFramebuffer' = f.sceneFramebuffer
  /\ overflow' = f.overflow
  /\ lastRenderOptions' = f.lastRenderOptions
  /\ UNCHANGED <<last, firstGlyph, geomLast>>

\* A render call with its options and what it reads from the page drawn
\* from the given sets.
DoRenderWith(options, envs) ==
  \E opt \in options, env \in envs :
    \E r \in {Render(FrameState, opt, env)} :
       /\ FrameCommit(r.f)
       /\ frameLast' = [op |-> "render", ok |-> r.ok, log |-> r.log,
                        forceGeometry |-> opt.forceGeometry,
                        postPass |-> opt.postPass, dirty |-> geometryDirty,
                        dpr |-> env.dpr,
                        afterReset |-> builtBeforeReset, call |-> call,
                        resized |-> canvas /= TargetSize(env.rect, env.dpr),
                        overflowChanged |-> overflow /= OverflowFor(env.needs)]
       /\ builtBeforeReset' =
            (builtBeforeReset /\ \A i \in 1..Len(r.log) : r.log[i].e /= "upload")

DoRender == DoRenderWith(FrameOptions, FrameEnvs)

\* The page of the renders that interleave with a registration from files:
\* one stage size, one placement.
AsyncEnvs ==
  [needs : {[x |-> FALSE, y |-> TRUE]}, rect : {[width |-> 100, height |-> 100]},
   dpr : FrameDprs,
   placements : {<<Placement("A", [w |-> 2, h |-> 2], Frac(10, 1))>>},
   complete : {TRUE}]

\* The options of those renders: with and without the post pass.
AsyncOptions == [forceGeometry : {FALSE}, showWire : {FALSE}, postPass : BOOLEAN]

DoRenderAsync == DoRenderWith(AsyncOptions, AsyncEnvs)

DoFrameClearCaches ==
  /\ FrameCommit(ClearCaches(FrameState))
  /\ frameLast' = [op |-> "clearCaches"]
  /\ builtBeforeReset' = TRUE

DoMarkGeometryDirty ==
  /\ FrameCommit(MarkGeometryDirty(FrameState))
  /\ frameLast' = [op |-> "markGeometryDirty"]
  /\ UNCHANGED builtBeforeReset

(***************************************************************************)
(* toClip on pixel positions of a canvas of width x height pixels.         *)
(***************************************************************************)
MaxClipW == 4
MaxClipH == 4

\* toClip(x, y, width, height) for a whole pixel position of the canvas,
\* its edges included.
DoToClip ==
  \E width \in 1..MaxClipW, height \in 1..MaxClipH :
    \E x \in 0..width, y \in 0..height :
      clipOut' = [op |-> "toClip", x |-> x, y |-> y,
                  width |-> width, height |-> height,
                  out |-> ToClip(Frac(x, 1), Frac(y, 1), width, height)]

(***************************************************************************)
(* The specifications: one per subsystem, the others at rest.              *)
(***************************************************************************)
InitAtlas == AtlasInit /\ RegInit /\ LookupIdle /\ GeomInit /\ ExtIdle

NextAtlas ==
  \/ DoGetGlyph /\ UNCHANGED <<regVars, lookupVars, geomVars, extVars>>
  \/ DoReset /\ UNCHANGED <<regVars, lookupVars, geomVars, extVars>>

SpecAtlas == InitAtlas /\ [][NextAtlas]_vars

InitRegistry == AtlasInit /\ RegInit /\ LookupIdle /\ GeomInit /\ ExtIdle

NextRegistry ==
  \/ DoRegisterShaderProgram /\ UNCHANGED <<atlasVars, lookupVars, geomVars, extVars>>
  \/ DoCompileCustomShader /\ UNCHANGED <<atlasVars, lookupVars, geomVars, extVars>>
  \/ DoRegisterRawShaderProgramFromSource /\ UNCHANGED <<atlasVars, lookupVars, geomVars, extVars>>
  \/ DoRegisterRawPostPassProgramFromSource /\ UNCHANGED <<atlasVars, lookupVars, geomVars, extVars>>
  \/ DoRegisterRawFromFiles /\ UNCHANGED <<atlasVars, lookupVars, geomVars, extVars>>
  \/ DoFetchSettles /\ UNCHANGED <<atlasVars, lookupVars, geomVars, extVars>>

SpecRegistry == InitRegistry /\ [][NextRegistry]_vars

InitLookup == AtlasInit /\ RegInit /\ LookupInit /\ GeomInit /\ ExtIdle

NextLookup ==
  \/ DoGetProgramInfo /\ UNCHANGED <<atlasVars, regVars, geomVars, extVars>>
  \/ DoGetPostPassProgramInfo /\ UNCHANGED <<atlasVars, regVars, geomVars, extVars>>
  \/ DoGetProgramInfoPlain /\ UNCHANGED <<atlasVars, regVars, geomVars, extVars>>

SpecLookup == InitLookup /\ [][NextLookup]_vars

InitGeometry == AtlasInit /\ RegInit /\ LookupIdle /\ GeomInit /\ ExtIdle

NextGeometry ==
  \/ DoRebuildGeometry /\ UNCHANGED <<regVars, lookupVars, extVars>>
  \/ DoClearCaches /\ UNCHANGED <<regVars, lookupVars, extVars>>

SpecGeometry == InitGeometry /\ [][NextGeometry]_vars

InitAnimate == AtlasInit /\ RegInit /\ LookupIdle /\ GeomInit /\ ExtIdle

NextAnimate ==
  \/ DoShouldAnimate
       /\ UNCHANGED <<atlasVars, regVars, lookupVars, geomVars, frameVars, domVars,
                    tailVars>>
  \/ DoCompileCustomShader /\ UNCHANGED <<atlasVars, lookupVars, geomVars, extVars>>
  \/ DoRegisterRawShaderProgramFromSource
       /\ UNCHANGED <<atlasVars, lookupVars, geomVars, extVars>>
  \/ DoRegisterRawPostPassProgramFromSource
       /\ UNCHANGED <<atlasVars, lookupVars, geomVars, extVars>>

SpecAnimate == InitAnimate /\ [][NextAnimate]_vars

InitDom ==
  /\ AtlasInit /\ RegInit /\ LookupIdle /\ GeomInit
  /\ AnimInit /\ FrameInit /\ DomInit /\ ClipInit /\ ScrollInit

NextDom ==
  DoSanitizeDomLayer
    /\ UNCHANGED <<atlasVars, regVars, lookupVars, geomVars, animVars, frameVars,
                   tailVars>>

SpecDom == InitDom /\ [][NextDom]_vars

InitFrame == AtlasInit /\ RegInit /\ LookupIdle /\ GeomInit /\ ExtIdle

NextFrame ==
  \/ DoRender /\ UNCHANGED <<regVars, lookupVars, animVars, domVars, tailVars>>
  \/ DoFrameClearCaches /\ UNCHANGED <<regVars, lookupVars, animVars, domVars, tailVars>>
  \/ DoMarkGeometryDirty /\ UNCHANGED <<regVars, lookupVars, animVars, domVars, tailVars>>
  \/ /\ gl.nextProgram <= FrameMaxPrograms
     /\ DoCompileCustomShader
     /\ frameLast' = [op |-> "registration"]
     /\ UNCHANGED <<atlasVars, lookupVars, geomVars, animVars, domVars, tailVars,
                    canvas, sceneTarget, sceneFramebuffer, overflow,
                    lastRenderOptions, builtBeforeReset>>

SpecFrame == InitFrame /\ [][NextFrame]_vars

\* Renders while the window moves between displays of device pixel ratio 1
\* and 2 and the stage is laid out at 200 x 100 or 100 x 50 CSS pixels.
RatioDprs == {1, 2}

RatioRects == {[width |-> 200, height |-> 100], [width |-> 100, height |-> 50]}

RatioEnvs ==
  [needs : {[x |-> FALSE, y |-> FALSE]}, rect : RatioRects, dpr : RatioDprs,
   placements : {<<Placement("A", [w |-> 1, h |-> 1], Frac(10, 1))>>},
   complete : {TRUE}]

DoRenderRatio == DoRenderWith(FrameOptions, RatioEnvs)

InitRatio == AtlasInit /\ RegInit /\ LookupIdle /\ GeomInit /\ ExtIdle

NextRatio ==
  \/ DoRenderRatio /\ UNCHANGED <<regVars, lookupVars, animVars, domVars, tailVars>>
  \/ DoMarkGeometryDirty /\ UNCHANGED <<regVars, lookupVars, animVars, domVars, tailVars>>

SpecRatio == InitRatio /\ [][NextRatio]_vars

\* The scroll listener of the DOM layer and the animation-frame callback it
\* requests.  requestAnimationFrame hands out ids from 1 up; the model stops
\* taking scroll events when the ids reach MaxRafId.
MaxRafId == 3

\* this.lastRenderOptions is not null.
HasRendered(opts) == opts /= [set |-> FALSE]

\* A listener that requests a callback although one is pending.
SchedulesAlways(opts, rafId) == HasRendered(opts)

\* A listener that only sets the flag.
SchedulesNever(opts, rafId) == FALSE

\* The listener goes on to requestAnimationFrame unless no render has
\* happened or a callback is pending.
Schedules(opts, rafId) == HasRendered(opts) /\ rafId = 0

\* One scroll event on the DOM layer.
DoScroll ==
  /\ rafNext <= MaxRafId
  /\ geometryDirty' = TRUE
  /\ IF Schedules(lastRenderOptions, scrollRafId)
     THEN /\ scrollRafId' = rafNext
          /\ rafPending' = rafPending \cup {rafNext}
          /\ rafNext' = rafNext + 1
     ELSE UNCHANGED <<scrollRafId, rafPending, rafNext>>
  /\ scrollLast' = [op |-> "scroll", rendered |-> HasRendered(lastRenderOptions),
                    pending |-> rafPending, rafId |-> scrollRafId]
  /\ scrollOwed' = TRUE
  /\ UNCHANGED <<atlasVars, vertices, vertexCount, geomLast, frameVars>>

\* What the renders of this specification read from the page.
ScrollEnvs ==
  [needs : {[x |-> FALSE, y |-> TRUE]}, rect : FrameRects, dpr : FrameDprs,
   placements : {<<Placement("A", [w |-> 2, h |-> 2], Frac(10, 1))>>},
   complete : {TRUE}]

\* The scroll is answered when a render uploads rebuilt geometry.
ScrollAnswered ==
  scrollOwed' = (scrollOwed /\ \A i \in 1..Len(frameLast'.log) :
                                 frameLast'.log[i].e /= "upload")

\* The browser runs a pending callback: it clears scrollRafId and renders
\* with the last options and forceGeometry.
DoRafCallback ==
  \E id \in rafPending :
    /\ rafPending' = rafPending \ {id}
    /\ scrollRafId' = 0
    /\ scrollLast' = [op |-> "callback", id |-> id]
    /\ UNCHANGED rafNext
    /\ IF HasRendered(lastRenderOptions)
       THEN /\ DoRenderWith({[lastRenderOptions EXCEPT !.forceGeometry = TRUE]},
                            ScrollEnvs)
            /\ ScrollAnswered
       ELSE UNCHANGED <<atlasVars, geomVars, frameVars, scrollOwed>>

\* The host calls render.
DoRenderHost ==
  /\ DoRenderWith(FrameOptions, ScrollEnvs)
  /\ ScrollAnswered
  /\ scrollLast' = [op |-> "render"]
  /\ UNCHANGED <<scrollRafId, rafPending, rafNext>>

ScrollEvent == DoScroll /\ UNCHANGED <<regVars, lookupVars, animVars, domVars, clipVars>>

RafCallback ==
  DoRafCallback /\ UNCHANGED <<regVars, lookupVars, animVars, domVars, clipVars>>

HostRender ==
  DoRenderHost /\ UNCHANGED <<regVars, lookupVars, animVars, domVars, clipVars>>

InitScroll == AtlasInit /\ RegInit /\ LookupIdle /\ GeomInit /\ ExtIdle

NextScroll == ScrollEvent \/ RafCallback \/ HostRender

SpecScroll == InitScroll /\ [][NextScroll]_vars

\* What a step that runs a pending callback does to the callback queue; under
\* NextScroll only RafCallback takes such a step, and it can whenever a
\* callback is pending.
CallbackRuns == \E id \in rafPending : rafPending' = rafPending \ {id}

\* What the host's first call of render does to lastRenderOptions; under
\* NextScroll only HostRender takes such a step, and it can at any time.
FirstRender ==
  /\ ~HasRendered(lastRenderOptions)
  /\ \E opt \in FrameOptions : lastRenderOptions' = opt

\* The browser runs every requested animation-frame callback, and the host
\* renders at least once.
SpecScrollFair ==
  SpecScroll /\ WF_rafPending(CallbackRuns) /\ WF_lastRenderOptions(FirstRender)

InitAsync == AtlasInit /\ RegInit /\ LookupIdle /\ GeomInit /\ ExtIdle

NextAsync ==
  \/ DoRenderAsync /\ UNCHANGED <<regVars, lookupVars, animVars, domVars, tailVars>>
  \/ /\ gl.nextProgram <= FrameMaxPrograms
     /\ DoRegisterRawFromFiles
     /\ UNCHANGED <<atlasVars, lookupVars, geomVars, extVars>>
  \/ DoFetchSettles /\ UNCHANGED <<atlasVars, lookupVars, geomVars, extVars>>

SpecAsync == InitAsync /\ [][NextAsync]_vars

InitClip == AtlasInit /\ RegInit /\ LookupIdle /\ GeomInit /\ ExtIdle

NextClip ==
  DoToClip
    /\ UNCHANGED <<atlasVars, regVars, lookupVars, geomVars, animVars, frameVars,
                   domVars, scrollVars>>

SpecClip == InitClip /\ [][NextClip]_vars

InitWhitespace == AtlasInit /\ RegInit /\ LookupIdle /\ GeomInit /\ ExtIdle

NextWhitespace ==
  \/ DoGetWhitespace /\ UNCHANGED <<regVars, lookupVars, geomVars, extVars>>
  \/ DoGetInk /\ UNCHANGED <<regVars, lookupVars, geomVars, extVars>>
  \/ DoReset /\ UNCHANGED <<regVars, lookupVars, geomVars, extVars>>

SpecWhitespace == InitWhitespace /\ [][NextWhitespace]_vars

InitSlots == AtlasInit /\ RegInit /\ LookupIdle /\ GeomInit /\ ExtIdle

NextSlots ==
  \/ DoAllocGlyphSlot /\ UNCHANGED <<regVars, lookupVars, geomVars, extVars>>
  \/ DoReset /\ UNCHANGED <<regVars, lookupVars, geomVars, extVars>>

SpecSlots == InitSlots /\ [][NextSlots]_vars

(***************************************************************************)
(* Claims about the glyph atlas, checked under SpecAtlas.                  *)
(***************************************************************************)
Cursor(a) == <<a.x, a.y, a.rowH>>

IsMiss == last.op = "getGlyph" /\ ~last.hit /\ ~IsSpacer(KeyCh(last.key))

\* The texel rectangle of a cached glyph, read back from its UV rectangle.
RectOf(g) == [x0 |-> g.u0.num, x1 |-> g.u1.num, y0 |-> g.v0.num, y1 |-> g.v1.num]

Disjoint(r, q) ==
  \/ r.x1 <= q.x0 \/ q.x1 <= r.x0 \/ r.y1 <= q.y0 \/ q.y1 <= r.y0

Covers(r, px, py) == r.x0 <= px /\ px < r.x1 /\ r.y0 <= py /\ py < r.y1

GlyphKeysIn(a) == {k \in DOMAIN a.map : ~a.map[k].empty}

\* C1: a getGlyph call for a key that an earlier call of this generation
\* answered returns a glyph equal by value to that first answer, and the call
\* leaves the cursor (x, y, rowH) and the cache map unchanged.
C1_CacheIdempotent ==
  [][ (last'.op = "getGlyph" /\ last'.repeated)
        => /\ last'.ok
           /\ last'.glyph = firstGlyph[last'.key]
           /\ Cursor(atlas') = Cursor(atlas)
           /\ atlas'.map = atlas.map ]_vars

\* C1 witness: a repeated call for a rasterized (non-empty) glyph was answered.
C1_Witness ==
  last.op = "getGlyph" /\ last.repeated /\ last.ok /\ ~last.glyph.empty

\* C2: the texel rectangles of any two non-empty glyphs cached under distinct
\* keys are disjoint, and none of them contains the white pixel at (0, 0).
C2_NoOverlap ==
  \A k \in GlyphKeysIn(atlas) :
    /\ ~Covers(RectOf(atlas.map[k]), 0, 0)
    /\ \A q \in GlyphKeysIn(atlas) :
         q /= k => Disjoint(RectOf(atlas.map[k]), RectOf(atlas.map[q]))

\* C2 witness: three glyphs are packed, two on one shelf and one on the next.
C2_Witness ==
  \E k, q, r \in GlyphKeysIn(atlas) :
    /\ k /= q
    /\ atlas.map[k].v0 = atlas.map[q].v0
    /\ atlas.map[r].v0.num > atlas.map[k].v0.num

\* C3, as claimed: an allocation raises atlas full exactly when the cell would
\* exceed the atlas height at the (possibly wrapped) y, y + h > height, and a
\* cell ending exactly at the atlas height is placed.  (After the call, y is
\* the y the test read: a placement does not move y.)
C3_FullIffExceeds ==
  IsMiss => (~last.ok <=> atlas.y + last.h > AtlasHeight)

\* C3, amended: an allocation raises atlas full exactly when the cell would
\* reach or exceed the atlas height, y + h >= height; it succeeds exactly
\* when y + h < height.
C3_FullIffReaches ==
  IsMiss => (~last.ok <=> atlas.y + last.h >= AtlasHeight)

\* C3 witness: a cell that would end exactly at the atlas height was refused.
C3_Witness ==
  IsMiss /\ ~last.ok /\ atlas.y + last.h = AtlasHeight

\* C4: a reset leaves the cache empty, the cursor at (2, 2) with rowH 0 and
\* the white pixel at the same zero-area UV; a getGlyph that follows a reset
\* for a non-whitespace key cached before it is not answered from the cache
\* but allocates a slot again (the cursor moves and the key is cached); and no
\* first request of a generation for a non-whitespace key is a cache hit.
C4_ResetForcesRepack ==
  [][ /\ (last'.op = "reset"
            => /\ atlas'.map = Empty
               /\ Cursor(atlas') = <<2, 2, 0>>
               /\ atlas'.whitePixel.u0 = atlas'.whitePixel.u1
               /\ atlas'.whitePixel.v0 = atlas'.whitePixel.v1
               /\ atlas'.whitePixel.u0 = Frac(1, 2 * AtlasWidth)
               /\ atlas'.whitePixel.v0 = Frac(1, 2 * AtlasHeight))
      /\ (last'.op = "getGlyph" /\ last'.recached
            => /\ ~last'.hit /\ last'.ok
               /\ <<atlas'.x, atlas'.y>> /= <<atlas.x, atlas.y>>
               /\ last'.key \in GlyphKeysIn(atlas'))
      /\ (last'.op = "getGlyph" /\ ~last'.repeated
             /\ ~IsSpacer(KeyCh(last'.key))
            => ~last'.hit) ]_vars

\* C4 witness: a key cached before a reset was requested right after it.
C4_Witness ==
  last.op = "getGlyph" /\ last.recached /\ last.ok /\ ~last.glyph.empty

(***************************************************************************)
(* Claims about the shader program registry, checked under SpecRegistry.   *)
(***************************************************************************)
SyncRegistrations ==
  {"registerShaderProgram", "compileCustomShader",
   "registerRawShaderProgramFromSource", "registerRawPostPassProgramFromSource"}

RegistryPrograms ==
  {shaderPrograms[k].program : k \in DOMAIN shaderPrograms}
    \cup {postPassPrograms[k].program : k \in DOMAIN postPassPrograms}

\* C5: a registration that fails because a stage does not compile or the
\* program does not link leaves both registries and both active keys as they
\* were; every program stored before the call is still undeleted, and lookup
\* of the key returns what it returned before.
C5_FailedRegistrationKeepsRegistry ==
  [][ (regLast'.op \in SyncRegistrations /\ ~regLast'.ok
         /\ regLast'.cause \in {"compile", "link"})
        => /\ shaderPrograms' = shaderPrograms
           /\ postPassPrograms' = postPassPrograms
           /\ activeShaderKey' = activeShaderKey
           /\ activePostPassKey' = activePostPassKey
           /\ RegistryPrograms \subseteq LivePrograms(gl')
           /\ GetProgramInfo(shaderPrograms', regLast'.key)
                = GetProgramInfo(shaderPrograms, regLast'.key)
           /\ GetPostPassProgramInfo(postPassPrograms', regLast'.key)
                = GetPostPassProgramInfo(postPassPrograms, regLast'.key) ]_vars

\* C5 witness: a raw registration under a key that holds a program, and that
\* is not the active key, failed at link.
C5_Witness ==
  /\ regLast.op = "registerRawShaderProgramFromSource"
  /\ ~regLast.ok /\ regLast.cause = "link"
  /\ regLast.key \in DOMAIN shaderPrograms
  /\ activeShaderKey /= regLast.key

FetchFailed(c) ==
  c.state /= "none" /\ (c.vertex = "failed" \/ c.fragment = "failed")

\* C6: once either fetch of a registerRaw...FromFiles call has failed, the
\* call is rejected and has attempted no compile, whichever fetch failed and
\* in whichever order the two settled; and no step of that call changes the
\* scene registry, the post-pass registry, the active keys or any GPU object.
C6_FromFilesFailsAsUnit ==
  /\ [](FetchFailed(call) => call.state = "rejected" /\ ~call.compiled)
  /\ [][ (FetchFailed(call') /\ regLast'.op \in {"fetchSettles", "resumeFromFiles"})
           => UNCHANGED <<shaderPrograms, postPassPrograms, activeShaderKey,
                          activePostPassKey, gl>> ]_vars

\* C6 witness: the fragment fetch succeeded first and the vertex fetch then
\* failed; both have settled.
C6_Witness ==
  /\ call.state = "rejected"
  /\ call.vertex = "failed" /\ call.fragment = "ok"
  /\ regLast.op = "fetchSettles" /\ ~regLast.ok

\* C8: the program handles created and not deleted are exactly the programs
\* stored in the two registries; no handle is deleted twice; and a step that
\* replaces the program of a key deletes the replaced program (once).
C8_LiveProgramsAreRegistry ==
  /\ [](/\ LivePrograms(gl) = RegistryPrograms
        /\ \A p \in DOMAIN gl.programs : gl.programs[p] <= 1)
  /\ [][ /\ \A k \in DOMAIN shaderPrograms :
              shaderPrograms'[k] /= shaderPrograms[k]
                => /\ gl.programs[shaderPrograms[k].program] = 0
                   /\ gl'.programs[shaderPrograms[k].program] = 1
         /\ \A k \in DOMAIN postPassPrograms :
              postPassPrograms'[k] /= postPassPrograms[k]
                => /\ gl.programs[postPassPrograms[k].program] = 0
                   /\ gl'.programs[postPassPrograms[k].program] = 1 ]_vars

\* C8 witness: the default scene program of the constructor (handle 1) was
\* replaced and deleted, after a registration that failed at link.
C8_Witness ==
  /\ gl.programs[1] = 1
  /\ shaderPrograms[defaultShaderKey].program /= 1
  /\ \E p \in DOMAIN gl.programs : p > 4 /\ gl.programs[p] = 1

(***************************************************************************)
(* The claim about program lookup, checked under SpecLookup.               *)
(***************************************************************************)
\* What a lookup answers when d is the fallback key.
FallsBackTo(d) ==
  IF lkOut.key \in DOMAIN lkPrograms
  THEN lkOut.out.ok /\ lkOut.out.info = lkPrograms[lkOut.key]
  ELSE IF d \in DOMAIN lkPrograms
  THEN lkOut.out.ok /\ lkOut.out.info = lkPrograms[d]
  ELSE ~lkOut.out.ok

\* C7, as claimed: a lookup of a registered key returns its program; a lookup
\* of an unregistered key returns the program under "default" (scene) or
\* "identity" (post pass) and fails only when that key is absent.
C7_FallbackNamedDefault ==
  /\ lkOut.fn \in {"getProgramInfo", "getProgramInfoPlain"} => FallsBackTo("default")
  /\ lkOut.fn = "getPostPassProgramInfo" => FallsBackTo("identity")

\* C7, amended: the fallback key of the scene namespace is "__default"
\* ("plain" in the renderer without post passes), that of the post-pass
\* namespace is "identity".
C7_FallbackKey ==
  /\ lkOut.fn = "getProgramInfo" => FallsBackTo("__default")
  /\ lkOut.fn = "getProgramInfoPlain" => FallsBackTo("plain")
  /\ lkOut.fn = "getPostPassProgramInfo" => FallsBackTo("identity")

\* C7 witness: an unregistered key was looked up in a scene registry that
\* holds both "__default" and "default", and the lookup answered.
C7_Witness ==
  /\ lkOut.fn = "getProgramInfo"
  /\ lkOut.key \notin DOMAIN lkPrograms
  /\ {"__default", "default"} \subseteq DOMAIN lkPrograms
  /\ lkOut.out.ok

(***************************************************************************)
(* Claims about the geometry builder, checked under SpecGeometry.          *)
(***************************************************************************)
Built(g) == g.op = "rebuildGeometry" /\ g.ok

PlacementKey(p, dpr) == GlyphKey(p.style, p.ch, dpr)

\* The placements whose glyph, as cached in atlas a, is not empty.
NonEmptyPlacements(a, ps, dpr) ==
  {i \in 1..Len(ps) : ~a.map[PlacementKey(ps[i], dpr)].empty}

\* The placements whose box is wider than 0.35.
WidePlacements(ps) == {i \in 1..Len(ps) : FracGT(ps[i].boxW, Frac(35, 100))}

\* C9: a build that returns yields 6 vertices per placement with a non-empty
\* glyph plus, with the wireframe flag on, 24 per placement whose box is
\* wider than 0.35; a single 'A' with a box 10 wide yields 6 without the
\* flag and 30 with it; and a build whose boxes are all at or below 0.35
\* wide holds no border vertex.
C9_VertexCount ==
  Built(geomLast) =>
    LET ps == geomLast.placements IN
    /\ vertexCount = Len(vertices)
    /\ vertexCount =
         6 * Cardinality(NonEmptyPlacements(atlas, ps, geomLast.dpr))
           + 24 * (IF geomLast.showWire THEN Cardinality(WidePlacements(ps)) ELSE 0)
    /\ (Len(ps) = 1 /\ ps[1].ch = "A" /\ ps[1].boxW = Frac(10, 1))
         => vertexCount = IF geomLast.showWire THEN 30 ELSE 6
    /\ WidePlacements(ps) = {}
         => \A n \in 1..Len(vertices) : vertices[n].color /= WireColor

\* C9 witness: a build with the wireframe flag on of an 'A' with a wide box
\* and an 'A' with a box exactly 0.35 wide.
C9_Witness ==
  /\ Built(geomLast) /\ geomLast.showWire
  /\ Len(geomLast.placements) = 2
  /\ geomLast.placements[1].ch = "A" /\ geomLast.placements[1].boxW = Frac(10, 1)
  /\ geomLast.placements[2].ch = "A" /\ geomLast.placements[2].boxW = Frac(35, 100)
  /\ vertexCount = 36

SameGlyph(p, q) == p.style = q.style /\ p.ch = q.ch

\* The placements list without the later placements of a glyph already in it.
Dedup(ps) ==
  LET keep == {i \in 1..Len(ps) : \A j \in 1..(i - 1) : ~SameGlyph(ps[j], ps[i])}
      F[i \in 0..Len(ps)] ==
        IF i = 0 THEN << >>
        ELSE IF i \in keep THEN Append(F[i - 1], ps[i]) ELSE F[i - 1]
  IN F[Len(ps)]

\* Where the glyph quad of placement i starts in the buffer of a build of ps.
QuadStart(ps, showWire, i) ==
  LET n(j) == (IF IsSpacer(ps[j].ch) THEN 0 ELSE 6)
                + (IF WireVisible(showWire, ps[j].boxW) THEN 24 ELSE 0)
      F[j \in 1..Len(ps)] == IF j = 1 THEN 1 ELSE F[j - 1] + n(j - 1)
  IN F[i]

\* C10: a build leaves the atlas (cursor and cache) as the build of the same
\* list without its repeated glyphs leaves it, so placements that share
\* style, character and pixel ratio take one slot between them; and when the
\* build returns, their glyph quads carry the same texture coordinates.
C10_SharedGlyphOneSlot ==
  [][ geomLast'.op = "rebuildGeometry" =>
        LET ps == geomLast'.placements
            sw == geomLast'.showWire
        IN /\ atlas' = BuildVertices(atlas, Dedup(ps), CanvasWidth, CanvasHeight,
                                     geomLast'.dpr, sw).atlas
           /\ geomLast'.ok =>
                \A i, j \in 1..Len(ps) :
                  (SameGlyph(ps[i], ps[j]) /\ ~IsSpacer(ps[i].ch)) =>
                    \A k \in 0..5 :
                      LET v == vertices'[QuadStart(ps, sw, i) + k]
                          w == vertices'[QuadStart(ps, sw, j) + k]
                      IN /\ v.u = w.u /\ v.v = w.v /\ v.bounds = w.bounds
                         /\ v.color /= WireColor ]_vars

\* C10 witness: two placements of the same glyph were built on an atlas whose
\* cursor then stands one cell past the origin, with one glyph cached.
C10_Witness ==
  /\ Built(geomLast)
  /\ Len(geomLast.placements) = 2
  /\ SameGlyph(geomLast.placements[1], geomLast.placements[2])
  /\ geomLast.placements[1].ch = "A"
  /\ Cardinality(GlyphKeysIn(atlas)) = 1
  /\ LET c == CellOf(geomLast.placements[1].style, "A", geomLast.dpr)
     IN Cursor(atlas) = <<2 + c.w + 1, 2, c.h>>
  /\ vertexCount >= 12

(***************************************************************************)
(* More claims about the glyph atlas, checked under SpecAtlas.             *)
(***************************************************************************)
\* C15: a getGlyph call that fails with atlas full leaves the cursor
\* (x, y, rowH) and the glyph cache as they were before the call.
C15_FailedGetGlyphKeepsAtlas ==
  [][ (last'.op = "getGlyph" /\ ~last'.ok)
        => (Cursor(atlas') = Cursor(atlas) /\ atlas'.map = atlas.map) ]_vars

(***************************************************************************)
(* The frame: claims C11 to C14, C16 and C17.                              *)
(***************************************************************************)
IsRender(l) == l.op = "render"

IsDraw(ev) == ev.e \in {"drawScene", "drawPost"}

Draws(log) == SelectSeq(log, IsDraw)

Asked(log, what) == \E i \in 1..Len(log) : log[i].e = what

\* The render found the state Clean, was not forced, and found the canvas
\* size and the overflow state as the last frame left them.
Reuses(l) == ~l.dirty /\ ~l.forceGeometry /\ ~l.resized /\ ~l.overflowChanged

\* The log starts with the layout query, then the upload unless the build
\* threw, and every draw comes after the upload.
RebuildsFirst(l) ==
  /\ Len(l.log) >= 1 /\ l.log[1].e = "layout"
  /\ l.ok => (Len(l.log) >= 2 /\ l.log[2].e = "upload")
  /\ \A i \in 1..Len(l.log) :
       IsDraw(l.log[i]) => (i > 2 /\ l.log[2].e = "upload")

\* C11: clearCaches and markGeometryDirty leave the state Dirty; a render
\* that finds the state Dirty, or finds the canvas target size changed, or
\* is called with forceGeometry (also in state Clean), queries the layout,
\* rebuilds and uploads the vertex buffer before any draw call.
C11_DirtyRenderRebuildsFirst ==
  [][ /\ frameLast'.op \in {"clearCaches", "markGeometryDirty"} => geometryDirty'
      /\ (IsRender(frameLast')
            /\ (geometryDirty \/ frameLast'.resized \/ frameLast'.forceGeometry))
         => RebuildsFirst(frameLast') ]_vars

\* A forced render in state Clean, with nothing else changed, that rebuilt
\* and drew.
C11_ForcedCleanRenderRebuilt ==
  /\ IsRender(frameLast) /\ frameLast.ok
  /\ frameLast.forceGeometry /\ ~frameLast.dirty
  /\ ~frameLast.resized /\ ~frameLast.overflowChanged
  /\ Asked(frameLast.log, "upload") /\ Draws(frameLast.log) /= << >>

\* C12: a render that finds the state Clean, is not forced, and finds the
\* canvas target size and the overflow state unchanged queries no layout,
\* calls no atlas, and leaves the vertex buffer, vertexCount and the atlas
\* (cache and cursor) as they were; every render that returns normally
\* leaves the state Clean.
C12_CleanRenderReusesGeometry ==
  [][ IsRender(frameLast') =>
        /\ Reuses(frameLast') =>
             /\ ~Asked(frameLast'.log, "layout") /\ ~Asked(frameLast'.log, "upload")
             /\ vertices' = vertices /\ vertexCount' = vertexCount
             /\ atlas' = atlas
        /\ frameLast'.ok => ~geometryDirty' ]_vars

\* A render that reused a non-empty buffer and drew it.
C12_ReusedGeometryDrawn ==
  /\ IsRender(frameLast) /\ frameLast.ok /\ Reuses(frameLast)
  /\ vertexCount > 0 /\ Draws(frameLast.log) /= << >>

IsSceneDraw(ev, target) == ev.e = "drawScene" /\ ev.target = target

IsPostDraw(ev) ==
  ev.e = "drawPost" /\ ev.target = "screen" /\ ev.texture = "sceneTexture"

\* C13: with postPass.enabled the draws of a render are the scene into the
\* offscreen target and then one post-pass draw of that target to the screen;
\* without it they are one scene draw to the screen, with no post-pass draw
\* and no reallocation of the offscreen target.  A render that throws has
\* issued the draws that come before the throw, in this order.
C13_PassOrder ==
  [][ IsRender(frameLast') =>
        LET d == Draws(frameLast'.log)
        IN IF frameLast'.postPass
           THEN /\ Len(d) <= 2
                /\ Len(d) >= 1 => IsSceneDraw(d[1], "offscreen")
                /\ Len(d) >= 2 => IsPostDraw(d[2])
                /\ frameLast'.ok => Len(d) = 2
           ELSE /\ Len(d) <= 1
                /\ Len(d) >= 1 => IsSceneDraw(d[1], "screen")
                /\ frameLast'.ok => Len(d) = 1
                /\ ~Asked(frameLast'.log, "allocTarget")
                /\ sceneTarget' = sceneTarget ]_vars

\* A render with the post pass that drew both passes, the offscreen target
\* being the one an earlier post-pass render allocated.
C13_BothPassesDrawn ==
  /\ IsRender(frameLast) /\ frameLast.ok /\ frameLast.postPass
  /\ Len(Draws(frameLast.log)) = 2
  /\ ~Asked(frameLast.log, "allocTarget")

\* The render ended in rebuildGeometry, before the passes.
RebuildThrew(l) == ~l.ok /\ l.log = <<[e |-> "layout"]>>

\* C14: at every scene draw into the offscreen target the recorded target
\* size is the canvas size; a post-pass render that reaches the passes
\* reallocates the target exactly when the recorded size differs from the
\* canvas size, to the canvas size.
C14_OffscreenTargetMatchesCanvas ==
  [][ IsRender(frameLast') =>
        /\ \A i \in 1..Len(frameLast'.log) :
             /\ IsSceneDraw(frameLast'.log[i], "offscreen")
                  => /\ frameLast'.log[i].sceneTarget = frameLast'.log[i].canvas
                     /\ frameLast'.log[i].canvas = canvas'
             /\ frameLast'.log[i].e = "allocTarget"
                  => frameLast'.log[i].size = canvas'
        /\ (frameLast'.postPass /\ ~RebuildThrew(frameLast'))
             => /\ Asked(frameLast'.log, "allocTarget") <=> sceneTarget /= canvas'
                /\ sceneTarget' = canvas' ]_vars

\* A post-pass render that found the canvas resized, reallocated the target
\* and drew the scene into it.
C14_ReallocatedAfterResize ==
  /\ IsRender(frameLast) /\ frameLast.ok /\ frameLast.postPass
  /\ frameLast.resized /\ Asked(frameLast.log, "allocTarget")
  /\ canvas = [width |-> 200, height |-> 100]
  /\ \E i \in 1..Len(frameLast.log) : IsSceneDraw(frameLast.log[i], "offscreen")

\* C16: a render whose rebuild fails leaves the vertex buffer and vertexCount
\* as they were, issues no draw, and leaves the state Dirty, so that the
\* next render rebuilds again.
C16_FailedRebuildStaysDirty ==
  [][ (IsRender(frameLast') /\ RebuildThrew(frameLast'))
        => /\ vertices' = vertices /\ vertexCount' = vertexCount
           /\ Draws(frameLast'.log) = << >>
           /\ geometryDirty' ]_vars

\* The UV rectangles of the glyphs cached in atlas a.
CachedRects(a) ==
  {<<a.map[k].u0, a.map[k].v0, a.map[k].u1, a.map[k].v1>> :
     k \in {j \in DOMAIN a.map : ~a.map[j].empty}}

DrewScene(l) == IsRender(l) /\ Asked(l.log, "drawScene")

\* C17: after a render that issued a scene draw, every glyph quad of the
\* vertex buffer carries the UV rectangle of a glyph in the atlas cache, the
\* draw counted the whole buffer, and the buffer was uploaded after the most
\* recent atlas reset.
C17_DrawnGeometryIsCurrent ==
  DrewScene(frameLast) =>
    /\ \A i \in 1..Len(vertices) :
         vertices[i].color /= WireColor => vertices[i].bounds \in CachedRects(atlas)
    /\ \A i \in 1..Len(frameLast.log) :
         frameLast.log[i].e = "drawScene" => frameLast.log[i].count = Len(vertices)
    /\ ~builtBeforeReset

\* A scene draw by a render that found the atlas reset since the last
\* upload, with the canvas size and the overflow unchanged and no force: it
\* rebuilt, and the cache holds the one glyph the rebuild asked for.
C17_DrawnAfterReset ==
  /\ DrewScene(frameLast) /\ frameLast.ok
  /\ frameLast.afterReset /\ ~frameLast.resized /\ ~frameLast.forceGeometry
  /\ ~frameLast.overflowChanged
  /\ vertexCount = 6 /\ Cardinality(DOMAIN atlas.map) = 1
  /\ Cursor(atlas) = <<5, 2, 2>>

(***************************************************************************)
(* shouldAnimate: claim C18, checked under SpecAnimate.                    *)
(***************************************************************************)
\* C18: shouldAnimate(animateEnabled) returns true exactly when
\* animateEnabled holds and the active scene key is not the default key or
\* the active post-pass key is not the identity key; the call changes no
\* registry, no active key and not the dirty flag.
C18_ShouldAnimateEitherProgram ==
  [][ animOut' /= animOut =>
        /\ animOut'.out <=> ShouldAnimateEitherKey(RegState, animOut'.enabled)
        /\ UNCHANGED <<regVars, geomVars>> ]_vars

(***************************************************************************)
(* Registration from files between frames: claim C19, under SpecAsync.     *)
(***************************************************************************)
Registries == <<shaderPrograms, postPassPrograms, activeShaderKey, activePostPassKey>>

\* The scene program a draw uses in the current state.
ActiveSceneProgram == GetProgramInfo(shaderPrograms, activeShaderKey).info.program

BothFetched(c) == c.vertex = "ok" /\ c.fragment = "ok"

\* C19: a step that leaves a registration from files pending (a render, or a
\* fetch completion that is not the last one) changes no registry and no
\* active key, and every scene draw of a render uses the program active in
\* the state the render found, which is the one active when the registration
\* started; the registries and active keys change only in the step that
\* resumes the call after both fetches succeeded, when compile and link
\* succeed, and that one step stores the entry and makes the key active.
C19_PendingRegistrationInvisible ==
  [][ /\ (call.state = "pending" /\ call'.state = "pending")
           => UNCHANGED Registries
      /\ (call' = call /\ IsRender(frameLast'))
           => /\ UNCHANGED Registries
              /\ \A i \in 1..Len(frameLast'.log) :
                   frameLast'.log[i].e = "drawScene"
                     => frameLast'.log[i].program = ActiveSceneProgram
      /\ Registries' /= Registries
           => /\ call.state = "pending" /\ BothFetched(call')
              /\ call'.state = "fulfilled" /\ call'.compiled
              /\ regLast'.op = "resumeFromFiles" /\ regLast'.ok
              /\ IF call'.ns = "scene"
                 THEN /\ activeShaderKey' = call'.key
                      /\ call'.key \in DOMAIN shaderPrograms'
                      /\ shaderPrograms'[call'.key].program
                           \notin RegistryPrograms
                      /\ \A k \in DOMAIN shaderPrograms \ {call'.key} :
                           shaderPrograms'[k] = shaderPrograms[k]
                      /\ UNCHANGED <<postPassPrograms, activePostPassKey>>
                 ELSE /\ activePostPassKey' = call'.key
                      /\ call'.key \in DOMAIN postPassPrograms'
                      /\ UNCHANGED <<shaderPrograms, activeShaderKey>> ]_vars

\* A render between the two fetch completions of a scene registration drew
\* the scene with the program of the default key, and the registration has
\* since succeeded and made its key active.
C19_RenderedWhilePending ==
  /\ IsRender(frameLast) /\ frameLast.ok
  /\ frameLast.call.state = "pending" /\ frameLast.call.ns = "scene"
  /\ frameLast.call.vertex = "pending" /\ frameLast.call.fragment = "ok"
  /\ \E i \in 1..Len(frameLast.log) :
       /\ frameLast.log[i].e = "drawScene"
       /\ frameLast.log[i].program = shaderPrograms[defaultShaderKey].program
  /\ call.state = "fulfilled" /\ activeShaderKey = call.key
  /\ activeShaderKey /= defaultShaderKey

(***************************************************************************)
(* sanitizeDomLayer: claim C20, checked under SpecDom.                     *)
(***************************************************************************)
Sanitized(l) == l.op = "sanitizeDomLayer"

FracIs(a, n) == a.den /= 0 /\ a.num = n * a.den

\* C21: toClip maps the corner (0, 0) of a width x height canvas to (-1, 1)
\* and the corner (width, height) to (1, -1), and every position (x, y) to
\* ((x / width) * 2 - 1, 1 - (y / height) * 2).
C21_ToClipCorners ==
  clipOut.op = "toClip" =>
    /\ (clipOut.x = 0 /\ clipOut.y = 0)
         => FracIs(clipOut.out.x, -1) /\ FracIs(clipOut.out.y, 1)
    /\ (clipOut.x = clipOut.width /\ clipOut.y = clipOut.height)
         => FracIs(clipOut.out.x, 1) /\ FracIs(clipOut.out.y, -1)
    /\ clipOut.out.x.den /= 0 /\ clipOut.out.y.den /= 0
    /\ clipOut.out.x.num * clipOut.width
         = (2 * clipOut.x - clipOut.width) * clipOut.out.x.den
    /\ clipOut.out.y.num * clipOut.height
         = (clipOut.height - 2 * clipOut.y) * clipOut.out.y.den

\* The bottom-right corner of a canvas 4 wide and 3 high was converted.
C21_BottomRightConverted ==
  /\ clipOut.op = "toClip"
  /\ clipOut.width = 4 /\ clipOut.height = 3
  /\ clipOut.x = 4 /\ clipOut.y = 3
  /\ FracIs(clipOut.out.x, 1) /\ FracIs(clipOut.out.y, -1)

(***************************************************************************)
(* Whitespace in the atlas: claim C22, checked under SpecWhitespace.       *)
(***************************************************************************)
\* No cell of any size can be placed any more: a cell one texel high reaches
\* the atlas height on the current shelf and on every later one.
NoRoomLeft(a) == a.y + 1 >= AtlasHeight

\* C22: getGlyph for a space, tab, newline or carriage return returns the
\* empty glyph and does not throw; after the call the key is cached as the
\* empty glyph, every other cache entry is as it was, and the cursor
\* (x, y, rowH) is unchanged, also when the atlas has no room left.
C22_WhitespaceIsNotPacked ==
  [][ (last'.op = "getGlyph" /\ KeyCh(last'.key) \in {" ", "\t", "\n", "\r"})
        => /\ last'.ok /\ last'.glyph = [empty |-> TRUE]
           /\ Cursor(atlas') = Cursor(atlas)
           /\ last'.key \in DOMAIN atlas'.map
           /\ atlas'.map[last'.key] = [empty |-> TRUE]
           /\ DOMAIN atlas'.map = DOMAIN atlas.map \cup {last'.key}
           /\ \A k \in DOMAIN atlas.map : atlas'.map[k] = atlas.map[k] ]_vars

\* A tab asked for the first time in an atlas with no room left was cached.
C22_TabCachedInFullAtlas ==
  /\ last.op = "getGlyph" /\ KeyCh(last.key) = "\t"
  /\ last.ok /\ ~last.hit /\ ~last.repeated
  /\ NoRoomLeft(atlas)
  /\ last.key \in DOMAIN atlas.map

(***************************************************************************)
(* allocGlyphSlot: claims C23 and C28, checked under SpecSlots.            *)
(***************************************************************************)
Allocated(l) == l.op = "allocGlyphSlot"

\* The cursor after a call that found the cursor c and either wrapped or did
\* not: a wrap puts x at the left margin 2, moves y down by the height of the
\* finished shelf plus 1 and restarts the shelf height at 0; then, unless the
\* atlas is full, the cell goes to the cursor, x moves right by w + 1 and the
\* shelf height becomes at least h.
AfterAlloc(c, wraps, l) ==
  LET x == IF wraps THEN 2 ELSE c.x
      y == IF wraps THEN c.y + c.rowH + 1 ELSE c.y
      rowH == IF wraps THEN 0 ELSE c.rowH
  IN IF l.ok
     THEN /\ l.slot = [x |-> x, y |-> y]
          /\ Cursor(atlas) = <<x + l.w + 1, y, Max(rowH, l.h)>>
     ELSE Cursor(atlas) = <<x, y, rowH>>

\* (y, x) of cursor c is not below (y, x) of cursor d in lexicographic order.
NotBelow(c, d) == c.y > d.y \/ (c.y = d.y /\ c.x >= d.x)

\* C23, as claimed: the call starts a new shelf exactly when x + w > width,
\* the wrap and the placement change the cursor as described, and the cursor
\* (y, x) does not decrease.
C23_WrapsWhenExceeds ==
  Allocated(last) =>
    /\ AfterAlloc(last.from, last.from.x + last.w > AtlasWidth, last)
    /\ NotBelow(atlas, last.from)

\* C23, amended: the call starts a new shelf exactly when x + w >= width,
\* that is also for a cell that would end exactly at the right edge; the wrap
\* and the placement change the cursor as described, and the cursor (y, x)
\* does not decrease.
C23_WrapsWhenReaches ==
  Allocated(last) =>
    /\ AfterAlloc(last.from, last.from.x + last.w >= AtlasWidth, last)
    /\ NotBelow(atlas, last.from)

\* A cell that would have ended exactly at the right edge of a shelf in use
\* was placed at the left margin of the next shelf.
C23_ExactFitWrapped ==
  /\ Allocated(last) /\ last.ok
  /\ last.from.x + last.w = AtlasWidth /\ last.from.rowH > 0
  /\ last.slot = [x |-> 2, y |-> last.from.y + last.from.rowH + 1]

\* C28: every cell allocGlyphSlot returns lies inside the atlas, for every
\* requested size: 0 <= x, x + w <= width, 0 <= y, y + h <= height.
C28_SlotInsideAtlas ==
  (Allocated(last) /\ last.ok) =>
    /\ 0 <= last.slot.x /\ last.slot.x + last.w <= AtlasWidth
    /\ 0 <= last.slot.y /\ last.slot.y + last.h <= AtlasHeight

(***************************************************************************)
(* Shader objects: claim C25, checked under SpecRegistry.                  *)
(***************************************************************************)
\* C25: every shader object created during a registration is deleted by the
\* time the registration returns or throws, so no step of the registry
\* changes the number of shader objects alive.
C25_NoShaderOutlivesRegistration == [][gl'.shaders = gl.shaders]_vars

(***************************************************************************)
(* The state after construction and the offscreen target: claims C26 and   *)
(* C27, checked under SpecFrame.                                           *)
(***************************************************************************)
\* C26: while nothing has been registered since construction the active
\* post-pass key is identity and the active scene key is the default, so a
\* post-pass render draws the post pass with the identity program.
C26_ConstructedWithIdentity ==
  (IsRender(frameLast) /\ regLast.op = "new") =>
    /\ activePostPassKey = identityKey
    /\ activeShaderKey = defaultShaderKey
    /\ \A i \in 1..Len(frameLast.log) :
         IsPostDraw(frameLast.log[i])
           => frameLast.log[i].program = postPassPrograms[identityKey].program

\* C27: a scene draw into the offscreen target finds a complete framebuffer,
\* and a reallocation that left the framebuffer incomplete does not leave the
\* recorded size equal to the canvas size.
C27_NoDrawIntoIncompleteTarget ==
  IsRender(frameLast) =>
    /\ (\E i \in 1..Len(frameLast.log) :
          IsSceneDraw(frameLast.log[i], "offscreen"))
         => sceneFramebuffer.complete
    /\ (Asked(frameLast.log, "allocTarget") /\ ~sceneFramebuffer.complete)
         => sceneTarget /= canvas

(***************************************************************************)
(* Device pixel ratio: claim C24, checked under SpecRatio.                 *)
(***************************************************************************)
\* C24: a render that finds a device pixel ratio other than the one of the
\* render before it starts with a geometry rebuild, which uploads the
\* geometry for the new ratio unless it throws, also when the canvas pixel
\* size has stayed the same.
C24_RatioChangeRebuilds ==
  [][ (IsRender(frameLast) /\ IsRender(frameLast')
       /\ frameLast'.dpr /= frameLast.dpr)
        => /\ Asked(frameLast'.log, "layout")
           /\ frameLast'.ok => Asked(frameLast'.log, "upload") ]_vars

(***************************************************************************)
(* The scroll listener: claims C29 and C30, checked under SpecScroll and   *)
(* SpecScrollFair.                                                         *)
(***************************************************************************)
\* C29: at most one scroll-requested callback is pending; scrollRafId is
\* non-zero exactly while one is pending, and then it is that callback's id;
\* a scroll event requests a callback only if a render has happened and no
\* callback was pending.
C29_OneCallbackPending ==
  /\ Cardinality(rafPending) <= 1
  /\ scrollRafId /= 0 <=> rafPending /= {}
  /\ scrollRafId /= 0 => rafPending = {scrollRafId}
  /\ (scrollLast.op = "scroll" /\ rafPending /= scrollLast.pending)
       => scrollLast.rendered /\ scrollLast.pending = {}

\* A scroll event arrived while a callback was pending and requested none.
C29_ScrollWhilePending ==
  /\ scrollLast.op = "scroll"
  /\ scrollLast.pending /= {}
  /\ rafPending = scrollLast.pending
  /\ scrollRafId = scrollLast.rafId

\* C30: every scroll event is eventually followed by a geometry rebuild,
\* also a scroll that arrives while a callback is pending or before the
\* first render.
C30_ScrollLeadsToRebuild == scrollOwed ~> ~scrollOwed

\* A callback that a scroll requested ran and rebuilt the geometry.
C30_CallbackRebuilt ==
  /\ scrollLast.op = "callback"
  /\ ~scrollOwed
  /\ IsRender(frameLast) /\ frameLast.forceGeometry
  /\ Asked(frameLast.log, "upload")

====
